---- MODULE Spec2Model ----
(***************************************************************************)
(* Year-by-year valuation recurrence of the OakNorth grants working sheet. *)
(*                                                                         *)
(* Four variants of the engine  are modelled, selected by `variant`:       *)
(*   "fixed"          calculate_results of fixed-oaknorth-grants.py        *)
(*   "complete_fixed" calculate_results of oaknorth-grants-complete-fixed  *)
(*   "working_sheet"  calculate_values  of oaknorth-grants-improved.py     *)
(*   "updated_em"     calculate_results(growth_rate) of the same file      *)
(*                                                                         *)
(* Python floats are modelled as exact rationals [n |-> numerator,         *)
(* d |-> denominator] in lowest terms with d > 0, so every equality in     *)
(* this module is an equality of real numbers, not of IEEE doubles.        *)
(* A ledger field that has not been assigned is Undef (denominator 0).     *)
(* The arithmetic operators apply a function to their arguments, so that   *)
(* each argument is evaluated once, as Python evaluates it.                *)
(* The ledger runs from 2024 to LastYear; the source's loops run to 2035.  *)
(***************************************************************************)
EXTENDS Integers, FiniteSets, Sequences, TLC

\* ------------------------------------------------------------------ bounds
\* Last year of the modelled horizon (the source iterates to 2035).
LastYear == 2027

\* --------------------------------------------------------------- constants
FirstYear == 2024
BasePrice == 6

\* ------------------------------------------------------ exact rationals
Abs(x) == IF x < 0 THEN -x ELSE x

RECURSIVE GCD(_, _)
GCD(a, b) == IF b = 0 THEN a ELSE GCD(b, a % b)

\* n/d in lowest terms, d > 0
Norm(n, d) ==
    LET Reduced[p \in Int, q \in Int] ==
            LET g == GCD(Abs(p), Abs(q))
                s == IF q < 0 THEN -1 ELSE 1
            IN  [n |-> s * (p \div g), d |-> s * (q \div g)]
    IN  Reduced[n, d]

\* the values of a ledger field
Rat == [n : Int, d : Int]

I(k) == [n |-> k, d |-> 1]
Zero == I(0)
One == I(1)
Undef == [n |-> 0, d |-> 0]

RAdd(a, b) ==
    LET Sum[x \in Rat, y \in Rat] ==
            LET g == GCD(x.d, y.d)
            IN  Norm(x.n * (y.d \div g) + y.n * (x.d \div g), (x.d \div g) * y.d)
    IN  Sum[a, b]

RNeg(a) == [n |-> -a.n, d |-> a.d]
RSub(a, b) == RAdd(a, RNeg(b))

RMul(a, b) ==
    LET Product[x \in Rat, y \in Rat] ==
            LET g1 == GCD(Abs(x.n), y.d)
                g2 == GCD(Abs(y.n), x.d)
            IN  [n |-> (x.n \div g1) * (y.n \div g2), d |-> (x.d \div g2) * (y.d \div g1)]
    IN  Product[a, b]

\* Python max(0, x)
Max0(x) ==
    LET Floor[v \in Rat] == IF v.n < 0 THEN Zero ELSE v
    IN  Floor[x]

IsNeg(x) == x.n < 0
IsPos(x) == x.n > 0

\* -------------------------------------------------------------- the ledger
Years == FirstYear..LastYear

CommonFields == {"Common Shares Redeemed", "Cumulative Common Redeemed",
                 "Unsold Common Shares", "Common Redemption Value",
                 "Cumulative Common Redemption Value",
                 "Value of Unsold Common Shares", "Total Common Share Value"}

OptionFields == {"Vested Shares", "Vested Unsold Shares", "Redeemed Shares",
                 "Cumulative Redeemed", "Unsold Shares", "Redemption Value",
                 "Cumulative Redemption Value", "Value of Unsold Shares",
                 "Total Grant Value"}

Columns == {"Share Price"} \cup OptionFields \cup CommonFields \cup {"Combined Total Value"}

\* results[year] = {} for every year
EmptyResults == [y \in Years |-> [f \in Columns |-> Undef]]

\* r with field f of year y assigned v
Put(r, y, f, v) == [r EXCEPT ![y][f] = v]

\* the zeroing loop run over range(2025, 2036) instead of years
ZeroFields_From2025(r, fs) ==
    [y \in Years |-> [f \in Columns |-> IF f \in fs /\ y >= 2025 THEN Zero ELSE r[y][f]]]

\* r with every field of fs set to 0.0 in every year
ZeroFields(r, fs) ==
    [y \in Years |-> [f \in Columns |-> IF f \in fs THEN Zero ELSE r[y][f]]]

\* ------------------------------------------------ the per-year recurrence
\* the seed price grown by simple instead of compound interest
SharePriceYear_Simple(r, y, growth_rate) ==
    Put(r, y, "Share Price",
        RMul(r[FirstYear]["Share Price"], RAdd(One, RMul(growth_rate, I(y - FirstYear)))))

\* results[year]['Share Price'] = results[year-1]['Share Price'] * (1 + growth_rate)
SharePriceYear(r, y, growth_rate) ==
    Put(r, y, "Share Price", RMul(r[y - 1]["Share Price"], RAdd(One, growth_rate)))

\* the price difference without the floor at 0
IntrinsicValue_Unfloored(price, reference) == RSub(price, reference)

\* max(0, share price - reference price): purchase price or strike price
IntrinsicValue(price, reference) == Max0(RSub(price, reference))

\* the total, never reduced by what was redeemed
UnsoldCommon_Stale(tcs, cumulative) == I(tcs)

\* Unsold common shares of a year, from the total and the cumulative redeemed
UnsoldCommon(tcs, cumulative) == RSub(I(tcs), cumulative)

\* the year's redemption taken as a share of the total, not of the balance
CommonYear_RedeemingTotal(r, y, tcs, cpp, crr) ==
    LET redeemed == RMul(I(tcs), crr)
        cumulative == RAdd(r[y - 1]["Cumulative Common Redeemed"], redeemed)
        unsold == UnsoldCommon(tcs, cumulative)
        diff == IntrinsicValue(r[y]["Share Price"], cpp)
        value == RMul(diff, redeemed)
        cum_value == RAdd(r[y - 1]["Cumulative Common Redemption Value"], value)
        unsold_value == RMul(diff, unsold)
    IN  [r EXCEPT ![y] =
            [@ EXCEPT !["Common Shares Redeemed"] = redeemed,
                      !["Cumulative Common Redeemed"] = cumulative,
                      !["Unsold Common Shares"] = unsold,
                      !["Common Redemption Value"] = value,
                      !["Cumulative Common Redemption Value"] = cum_value,
                      !["Value of Unsold Common Shares"] = unsold_value,
                      !["Total Common Share Value"] = RAdd(cum_value, unsold_value)]]

\* Common shares, one year of 2026..2035
CommonYear(r, y, tcs, cpp, crr) ==
    LET redeemed == RMul(r[y - 1]["Unsold Common Shares"], crr)
        cumulative == RAdd(r[y - 1]["Cumulative Common Redeemed"], redeemed)
        unsold == UnsoldCommon(tcs, cumulative)
        diff == IntrinsicValue(r[y]["Share Price"], cpp)
        value == RMul(diff, redeemed)
        cum_value == RAdd(r[y - 1]["Cumulative Common Redemption Value"], value)
        unsold_value == RMul(diff, unsold)
    IN  [r EXCEPT ![y] =
            [@ EXCEPT !["Common Shares Redeemed"] = redeemed,
                      !["Cumulative Common Redeemed"] = cumulative,
                      !["Unsold Common Shares"] = unsold,
                      !["Common Redemption Value"] = value,
                      !["Cumulative Common Redemption Value"] = cum_value,
                      !["Value of Unsold Common Shares"] = unsold_value,
                      !["Total Common Share Value"] = RAdd(cum_value, unsold_value)]]

\* 2025 handled like a later year, redeeming at the sliders' default 5%
Common2025_Redeeming(r, tcs, cpp) ==
    CommonYear(Put(Put(r, 2024, "Cumulative Common Redeemed", Zero), 2024,
                   "Cumulative Common Redemption Value", Zero),
               2025, tcs, cpp, [n |-> 1, d |-> 20])

\* Common shares, 2025: no redemption in the first year
Common2025(r, tcs, cpp) ==
    LET diff == IntrinsicValue(r[2025]["Share Price"], cpp)
        unsold_value == RMul(diff, I(tcs))
    IN  [r EXCEPT ![2025] =
            [@ EXCEPT !["Common Shares Redeemed"] = Zero,
                      !["Cumulative Common Redeemed"] = Zero,
                      !["Unsold Common Shares"] = I(tcs),
                      !["Common Redemption Value"] = Zero,
                      !["Cumulative Common Redemption Value"] = Zero,
                      !["Value of Unsold Common Shares"] = unsold_value,
                      !["Total Common Share Value"] = unsold_value]]

\* The quantity the variant marks to market as "unsold" in the option branch:
\* the vested-and-unredeemed balance in "fixed", the raw unsold shares elsewhere.
UnsoldMultiplier(v, vested_unsold, unsold) ==
    IF v = "fixed" THEN vested_unsold ELSE unsold

\* the entry of the previous year read for the year
VestedLookup_Lagging(vsi, y) ==
    IF (y - 1) \in DOMAIN vsi THEN vsi[y - 1]
    ELSE IF y \in DOMAIN vsi THEN vsi[y]
    ELSE 0

\* vested_shares_input.get(year, vested_shares_input.get(year-1, 0));
\* for 2025 the default is 0.  With the year present this is vested_shares_input[year].
VestedLookup(vsi, y) ==
    IF y \in DOMAIN vsi THEN vsi[y]
    ELSE IF y > 2025 /\ (y - 1) \in DOMAIN vsi THEN vsi[y - 1]
    ELSE 0

\* vested shares - cumulative redeemed, without the floor at 0
VestedUnsold_Unclamped(vested, cumulative) == RSub(vested, cumulative)

\* Vested unsold shares = max(0, vested shares - cumulative redeemed)
VestedUnsold(vested, cumulative) == Max0(RSub(vested, cumulative))

\* the total, never reduced by what was redeemed
UnsoldGrant_Stale(tgs, cumulative) == I(tgs)

\* Unsold shares = total - cumulative redeemed
UnsoldGrant(tgs, cumulative) == RSub(I(tgs), cumulative)

\* 2025 with the vested unsold shares seeded from the total grant shares
Option2025_VestedUnsoldTotal(r, v, tgs, sp, vsi) ==
    LET vested == I(VestedLookup(vsi, 2025))
        diff == IntrinsicValue(r[2025]["Share Price"], sp)
        unsold_value == RMul(diff, UnsoldMultiplier(v, I(tgs), I(tgs)))
    IN  [r EXCEPT ![2025] =
            [@ EXCEPT !["Vested Shares"] = vested,
                      !["Redeemed Shares"] = Zero,
                      !["Cumulative Redeemed"] = Zero,
                      !["Vested Unsold Shares"] = I(tgs),
                      !["Unsold Shares"] = I(tgs),
                      !["Redemption Value"] = Zero,
                      !["Cumulative Redemption Value"] = Zero,
                      !["Value of Unsold Shares"] = unsold_value,
                      !["Total Grant Value"] = unsold_value]]

\* Option grant, 2025: no redemption in the first year
Option2025(r, v, tgs, sp, vsi) ==
    LET vested == I(VestedLookup(vsi, 2025))
        diff == IntrinsicValue(r[2025]["Share Price"], sp)
        unsold_value == RMul(diff, UnsoldMultiplier(v, vested, I(tgs)))
    IN  [r EXCEPT ![2025] =
            [@ EXCEPT !["Vested Shares"] = vested,
                      !["Redeemed Shares"] = Zero,
                      !["Cumulative Redeemed"] = Zero,
                      !["Vested Unsold Shares"] = vested,
                      !["Unsold Shares"] = I(tgs),
                      !["Redemption Value"] = Zero,
                      !["Cumulative Redemption Value"] = Zero,
                      !["Value of Unsold Shares"] = unsold_value,
                      !["Total Grant Value"] = unsold_value]]

\* the redemption rate hard-coded to the slider's default 5%
RedeemedShares_DefaultRate(prev, orr) ==
    RMul(prev["Vested Unsold Shares"], [n |-> 1, d |-> 20])

\* Redeemed shares of a year: a share of the previous year's vested unsold
RedeemedShares(prev, orr) == RMul(prev["Vested Unsold Shares"], orr)

\* the year's redemption taken from the previous year's raw unsold shares
OptionYear_RedeemingUnsold(r, y, v, tgs, sp, orr, vsi) ==
    LET vested == I(VestedLookup(vsi, y))
        redeemed == RMul(r[y - 1]["Unsold Shares"], orr)
        cumulative == RAdd(r[y - 1]["Cumulative Redeemed"], redeemed)
        vested_unsold == VestedUnsold(vested, cumulative)
        unsold == UnsoldGrant(tgs, cumulative)
        diff == IntrinsicValue(r[y]["Share Price"], sp)
        value == RMul(diff, redeemed)
        cum_value == RAdd(r[y - 1]["Cumulative Redemption Value"], value)
        unsold_value == RMul(diff, UnsoldMultiplier(v, vested_unsold, unsold))
    IN  [r EXCEPT ![y] =
            [@ EXCEPT !["Vested Shares"] = vested,
                      !["Redeemed Shares"] = redeemed,
                      !["Cumulative Redeemed"] = cumulative,
                      !["Vested Unsold Shares"] = vested_unsold,
                      !["Unsold Shares"] = unsold,
                      !["Redemption Value"] = value,
                      !["Cumulative Redemption Value"] = cum_value,
                      !["Value of Unsold Shares"] = unsold_value,
                      !["Total Grant Value"] = RAdd(cum_value, unsold_value)]]

\* Option grant, one year of 2026..2035
OptionYear(r, y, v, tgs, sp, orr, vsi) ==
    LET vested == I(VestedLookup(vsi, y))
        redeemed == RedeemedShares(r[y - 1], orr)
        cumulative == RAdd(r[y - 1]["Cumulative Redeemed"], redeemed)
        vested_unsold == VestedUnsold(vested, cumulative)
        unsold == UnsoldGrant(tgs, cumulative)
        diff == IntrinsicValue(r[y]["Share Price"], sp)
        value == RMul(diff, redeemed)
        cum_value == RAdd(r[y - 1]["Cumulative Redemption Value"], value)
        unsold_value == RMul(diff, UnsoldMultiplier(v, vested_unsold, unsold))
    IN  [r EXCEPT ![y] =
            [@ EXCEPT !["Vested Shares"] = vested,
                      !["Redeemed Shares"] = redeemed,
                      !["Cumulative Redeemed"] = cumulative,
                      !["Vested Unsold Shares"] = vested_unsold,
                      !["Unsold Shares"] = unsold,
                      !["Redemption Value"] = value,
                      !["Cumulative Redemption Value"] = cum_value,
                      !["Value of Unsold Shares"] = unsold_value,
                      !["Total Grant Value"] = RAdd(cum_value, unsold_value)]]

\* Combined Total Value = Total Common Share Value + Total Grant Value
CombinedYear(r, y) ==
    Put(r, y, "Combined Total Value",
        RAdd(r[y]["Total Common Share Value"], r[y]["Total Grant Value"]))

\* First year of the combined-value loop: range(2025, 2036), and
\* range(2026, 2036) in "updated_em"
CombinedFirstYear(v) == IF v = "updated_em" THEN 2026 ELSE 2025

\* Price of the seed year 2024: the constant 6.00 in calculate_results,
\* the strike price in calculate_values
SeedPrice(v, sp) == IF v = "working_sheet" THEN sp ELSE I(BasePrice)

\* ------------------------------------------------- the whole computation
\* for year in range(first, 2036): Step
RECURSIVE ForYears(_, _, _)
ForYears(Step(_, _), r, y) ==
    IF y > LastYear THEN r ELSE ForYears(Step, Step(r, y), y + 1)

\* calculate_results, from the empty ledger to the returned one, for the
\* inputs s = [growth, crr, orr, tcs, cpp, tgs, sp, vsi]
calculate_results(v, s) ==
    LET r0 == Put(EmptyResults, 2024, "Share Price", SeedPrice(v, s.sp))
        r1 == ForYears(LAMBDA r, y : SharePriceYear(r, y, s.growth), r0, 2025)
        r2 == Common2025(Put(ZeroFields(r1, CommonFields), 2024,
                             "Unsold Common Shares", I(s.tcs)), s.tcs, s.cpp)
        r3 == ForYears(LAMBDA r, y : CommonYear(r, y, s.tcs, s.cpp, s.crr), r2, 2026)
        r4 == Option2025(Put(ZeroFields(r3, OptionFields), 2024,
                             "Unsold Shares", I(s.tgs)), v, s.tgs, s.sp, s.vsi)
        r5 == ForYears(LAMBDA r, y : OptionYear(r, y, v, s.tgs, s.sp, s.orr, s.vsi),
                       r4, 2026)
    IN  ForYears(CombinedYear, r5, CombinedFirstYear(v))

\* one pass of the loop of calculate_values
ValuesYear(r, y, v, s) ==
    LET r1 == SharePriceYear(r, y, s.growth)
        r2 == OptionYear(r1, y, v, s.tgs, s.sp, s.orr, s.vsi)
        r3 == CommonYear(r2, y, s.tcs, s.cpp, s.crr)
    IN  CombinedYear(r3, y)

\* calculate_values, from the zeroed frame to the returned one
calculate_values(v, s) ==
    LET r0 == ZeroFields(EmptyResults, Columns)
        r1 == Put(r0, 2024, "Share Price", SeedPrice(v, s.sp))
        r2 == Put(r1, 2024, "Unsold Shares", I(s.tgs))
        r3 == Put(r2, 2024, "Unsold Common Shares", I(s.tcs))
        r4 == SharePriceYear(r3, 2025, s.growth)
        r5 == Option2025(r4, v, s.tgs, s.sp, s.vsi)
        r6 == Common2025(r5, s.tcs, s.cpp)
    IN  ForYears(LAMBDA r, y : ValuesYear(r, y, v, s), CombinedYear(r6, 2025), 2026)

\* The ledger variant v returns for the inputs s
Engine(v, s) ==
    IF v = "working_sheet" THEN calculate_values(v, s) ELSE calculate_results(v, s)

\* ------------------------------------------------------------- the inputs
R(n, d) == Norm(n, d)

Variants == {"fixed", "complete_fixed", "working_sheet", "updated_em"}

VestingYears == 2025..LastYear

\* default_values, and 100000 for all years after 2029
DefaultSchedule ==
    [y \in VestingYears |-> IF y >= 2029 THEN 100000 ELSE 60000 + 10000 * (y - 2025)]

\* custom schedules: the number inputs accept any count >= 0
CustomSchedules == {[y \in VestingYears |-> 8],
                    [y \in VestingYears |-> IF y = 2025 THEN 9 ELSE IF y = 2026 THEN 3 ELSE 0],
                    [y \in VestingYears |-> 0]}

\* One setting of the input controls
Scenario(g, crr, orr, tcs, cpp, tgs, sp, vsi) ==
    [growth |-> g, crr |-> crr, orr |-> orr, tcs |-> tcs, cpp |-> I(cpp),
     tgs |-> tgs, sp |-> I(sp), vsi |-> vsi]

\* The sliders' defaults and their neighbourhood, on the default schedule
DefaultScenarios ==
    {Scenario(g, crr, orr, 30000, 2, h[1], h[2], DefaultSchedule) :
        g \in {R(1, 5), R(1, 4)}, crr \in {Zero, R(1, 20)}, orr \in {Zero, R(1, 20)},
        h \in {<<100000, 6>>, <<100000, 100>>, <<100, 6>>}}

\* Small holdings with rates inside and outside the sliders' ranges
GrowthRates == {R(-1, 2), Zero, One}
RedemptionRates == {R(-1, 2), Zero, R(1, 2), One, R(3, 2)}

SmallScenarios ==
    {Scenario(g, crr, orr, c[1], c[2], h[1], h[2], vsi) :
        g \in GrowthRates, crr \in RedemptionRates, orr \in RedemptionRates,
        c \in {<<4, 7>>, <<8, 2>>},
        h \in {<<10, 6>>, <<10, 100>>, <<10, 1>>},
        vsi \in CustomSchedules}

Scenarios == DefaultScenarios \cup SmallScenarios

\* ---------------------------------------------------------------- state
VARIABLES variant, pbt_growth_rate, common_redemption_rate, option_redemption_rate,
          total_common_shares, common_purchase_price, total_grant_shares,
          strike_price, vested_shares_input, results, year, pc, error, previous,
          attempt, growth_chart_data, parked, own

inputs == <<variant, pbt_growth_rate, common_redemption_rate, option_redemption_rate,
            total_common_shares, common_purchase_price, total_grant_shares,
            strike_price, vested_shares_input>>

vars == <<variant, pbt_growth_rate, common_redemption_rate, option_redemption_rate,
          total_common_shares, common_purchase_price, total_grant_shares,
          strike_price, vested_shares_input, results, year, pc, error, previous,
          attempt, growth_chart_data, parked, own>>

\* what the call raised or reported: nothing, so far
NoError == [kind |-> "none", key |-> 0, text |-> ""]

\* KeyError(year) of vested_shares_input[year]
KeyError(y) == [kind |-> "KeyError", key |-> y, text |-> ""]

\* no variant indexes the schedule without a default
Strict_Never(v) == FALSE

\* the variants that index vested_shares_input[year] without a default
Strict(v) == v \in {"complete_fixed", "working_sheet", "updated_em"}

\* the lookup reads the entry of the following year
CanLookup_NextYear(v, vsi, y) == Strict(v) => (y + 1) \in DOMAIN vsi

\* the lookup of year y succeeds
CanLookup(v, vsi, y) == Strict(v) => y \in DOMAIN vsi

\* state not touched by the engine's steps
\* what the caller keeps across calls
session == <<previous, attempt, growth_chart_data, parked, own>>

aux == <<error, session>>

\* no invocation is suspended
NoInvocation ==
    [results |-> << >>, year |-> 0, pc |-> "none", frame |-> << >>, own |-> << >>]

\* no earlier invocation has returned
NoCall == [args |-> <<"none">>, ledger |-> << >>]

Init ==
    /\ variant \in Variants
    /\ \E s \in Scenarios :
          /\ pbt_growth_rate = s.growth
          /\ common_redemption_rate = s.crr
          /\ option_redemption_rate = s.orr
          /\ total_common_shares = s.tcs
          /\ common_purchase_price = s.cpp
          /\ total_grant_shares = s.tgs
          /\ strike_price = s.sp
          /\ vested_shares_input = s.vsi
          /\ own = s
    /\ results = EmptyResults
    /\ year = FirstYear
    /\ pc = "idle"
    /\ error = NoError
    /\ previous = NoCall
    /\ attempt = "primary"
    /\ growth_chart_data = << >>
    /\ parked = NoInvocation

\* ------------------------------------------- calculate_results, by phases
\* years, results = {year: {}}, results[2024]['Share Price'] = 6.00
CalcBegin ==
    /\ pc = "idle"
    /\ variant \in {"fixed", "complete_fixed", "updated_em"}
    /\ results' = Put(EmptyResults, 2024, "Share Price", SeedPrice(variant, strike_price))
    /\ year' = 2025
    /\ pc' = "price"
    /\ UNCHANGED <<inputs, aux>>

\* for year in range(2025, 2036): share price
SharePriceStep ==
    /\ pc = "price"
    /\ year <= LastYear
    /\ results' = SharePriceYear(results, year, pbt_growth_rate)
    /\ year' = year + 1
    /\ UNCHANGED <<inputs, aux, pc>>

\* zero the common fields, seed 2024, compute 2025
CommonSetup ==
    /\ pc = "price"
    /\ year > LastYear
    /\ results' = Common2025(Put(ZeroFields(results, CommonFields), 2024,
                                 "Unsold Common Shares", I(total_common_shares)),
                             total_common_shares, common_purchase_price)
    /\ year' = 2026
    /\ pc' = "common"
    /\ UNCHANGED <<inputs, aux>>

\* for year in range(2026, 2036): common shares
CommonStep ==
    /\ pc = "common"
    /\ year <= LastYear
    /\ results' = CommonYear(results, year, total_common_shares,
                             common_purchase_price, common_redemption_rate)
    /\ year' = year + 1
    /\ UNCHANGED <<inputs, aux, pc>>

\* zero the option fields, seed 2024, compute 2025
OptionSetup ==
    /\ pc = "common"
    /\ year > LastYear
    /\ CanLookup(variant, vested_shares_input, 2025)
    /\ results' = Option2025(Put(ZeroFields(results, OptionFields), 2024,
                                 "Unsold Shares", I(total_grant_shares)),
                             variant, total_grant_shares, strike_price,
                             vested_shares_input)
    /\ year' = 2026
    /\ pc' = "option"
    /\ UNCHANGED <<inputs, aux>>

\* the lookup done with setdefault, which stores the default in the schedule
OptionStep_SetDefault ==
    /\ pc = "option"
    /\ year <= LastYear
    /\ CanLookup(variant, vested_shares_input, year)
    /\ results' = OptionYear(results, year, variant, total_grant_shares, strike_price,
                             option_redemption_rate, vested_shares_input)
    /\ vested_shares_input' =
           [y \in DOMAIN vested_shares_input \cup {year} |->
               VestedLookup(vested_shares_input, y)]
    /\ year' = year + 1
    /\ UNCHANGED <<variant, pbt_growth_rate, common_redemption_rate,
                   option_redemption_rate, total_common_shares,
                   common_purchase_price, total_grant_shares, strike_price,
                   aux, pc>>

\* for year in range(2026, 2036): option grant
OptionStep ==
    /\ pc = "option"
    /\ year <= LastYear
    /\ CanLookup(variant, vested_shares_input, year)
    /\ results' = OptionYear(results, year, variant, total_grant_shares, strike_price,
                             option_redemption_rate, vested_shares_input)
    /\ year' = year + 1
    /\ UNCHANGED <<inputs, aux, pc>>

\* the option loop ends, the combined loop starts
CombinedSetup ==
    /\ pc = "option"
    /\ year > LastYear
    /\ year' = CombinedFirstYear(variant)
    /\ pc' = "combined"
    /\ UNCHANGED <<inputs, aux, results>>

\* for year in range(2025, 2036): combined values
CombinedStep ==
    /\ pc = "combined"
    /\ year <= LastYear
    /\ results' = CombinedYear(results, year)
    /\ year' = year + 1
    /\ UNCHANGED <<inputs, aux, pc>>

\* -------------------------------------------- calculate_values, by years
\* every column 0.0, the 2024 seed, and the whole of 2025
CalcValuesBegin ==
    /\ pc = "idle"
    /\ variant = "working_sheet"
    /\ CanLookup(variant, vested_shares_input, 2025)
    /\ LET r0 == ZeroFields(EmptyResults, Columns)
           r1 == Put(r0, 2024, "Share Price", SeedPrice(variant, strike_price))
           r2 == Put(r1, 2024, "Unsold Shares", I(total_grant_shares))
           r3 == Put(r2, 2024, "Unsold Common Shares", I(total_common_shares))
           r4 == SharePriceYear(r3, 2025, pbt_growth_rate)
           r5 == Option2025(r4, variant, total_grant_shares, strike_price,
                            vested_shares_input)
           r6 == Common2025(r5, total_common_shares, common_purchase_price)
       IN  results' = CombinedYear(r6, 2025)
    /\ year' = 2026
    /\ pc' = "values"
    /\ UNCHANGED <<inputs, aux>>

\* for year in range(2026, 2036): price, option grant, common shares, combined
CalcValuesStep ==
    /\ pc = "values"
    /\ year <= LastYear
    /\ CanLookup(variant, vested_shares_input, year)
    /\ LET r1 == SharePriceYear(results, year, pbt_growth_rate)
           r2 == OptionYear(r1, year, variant, total_grant_shares, strike_price,
                            option_redemption_rate, vested_shares_input)
           r3 == CommonYear(r2, year, total_common_shares, common_purchase_price,
                            common_redemption_rate)
       IN  results' = CombinedYear(r3, year)
    /\ year' = year + 1
    /\ UNCHANGED <<inputs, aux, pc>>

\* return results / return df
Return ==
    /\ pc \in {"combined", "values"}
    /\ year > LastYear
    /\ pc' = "done"
    /\ UNCHANGED <<inputs, aux, results, year>>

\* ------------------------------------------------ a year is not in the schedule
\* results[2025]['Vested Shares'] = vested_shares_input[2025] raises, after the
\* option fields were zeroed and 2024 seeded
OptionSetupKeyError ==
    /\ pc = "common"
    /\ year > LastYear
    /\ ~CanLookup(variant, vested_shares_input, 2025)
    /\ results' = Put(ZeroFields(results, OptionFields), 2024,
                      "Unsold Shares", I(total_grant_shares))
    /\ error' = KeyError(2025)
    /\ pc' = "raised"
    /\ UNCHANGED <<inputs, year, session>>

\* results[year]['Vested Shares'] = vested_shares_input[year] raises
OptionStepKeyError ==
    /\ pc = "option"
    /\ year <= LastYear
    /\ ~CanLookup(variant, vested_shares_input, year)
    /\ error' = KeyError(year)
    /\ pc' = "raised"
    /\ UNCHANGED <<inputs, results, year, session>>

\* df.loc[2025, 'Vested Shares'] = vesting_input[2025] raises, after the
\* columns were zeroed, 2024 seeded and the 2025 price written
CalcValuesBeginKeyError ==
    /\ pc = "idle"
    /\ variant = "working_sheet"
    /\ ~CanLookup(variant, vested_shares_input, 2025)
    /\ LET r0 == ZeroFields(EmptyResults, Columns)
           r1 == Put(r0, 2024, "Share Price", SeedPrice(variant, strike_price))
           r2 == Put(r1, 2024, "Unsold Shares", I(total_grant_shares))
           r3 == Put(r2, 2024, "Unsold Common Shares", I(total_common_shares))
       IN  results' = SharePriceYear(r3, 2025, pbt_growth_rate)
    /\ year' = 2025
    /\ error' = KeyError(2025)
    /\ pc' = "raised"
    /\ UNCHANGED <<inputs, session>>

\* df.loc[year, 'Vested Shares'] = vesting_input[year] raises, after the
\* year's price was written
CalcValuesStepKeyError ==
    /\ pc = "values"
    /\ year <= LastYear
    /\ ~CanLookup(variant, vested_shares_input, year)
    /\ results' = SharePriceYear(results, year, pbt_growth_rate)
    /\ error' = KeyError(year)
    /\ pc' = "raised"
    /\ UNCHANGED <<inputs, year, session>>

Next ==
    \/ CalcBegin
    \/ SharePriceStep
    \/ CommonSetup
    \/ CommonStep
    \/ OptionSetup
    \/ OptionStep
    \/ CombinedSetup
    \/ CombinedStep
    \/ CalcValuesBegin
    \/ CalcValuesStep
    \/ Return

Spec == Init /\ [][Next]_vars

\* The ledger has been returned
Done == pc = "done"

\* the inputs of the call in progress
Given ==
    [growth |-> pbt_growth_rate, crr |-> common_redemption_rate,
     orr |-> option_redemption_rate, tcs |-> total_common_shares,
     cpp |-> common_purchase_price, tgs |-> total_grant_shares,
     sp |-> strike_price, vsi |-> vested_shares_input]

\* ------------------------------------------- inputs the controls can give
RLe(a, b) == ~IsPos(RSub(a, b))

\* PBT Growth Rate slider: 10..25 percent, 0..20 in the working sheet;
\* both redemption sliders: 0..10 percent
SliderRange ==
    /\ IF variant = "working_sheet"
       THEN RLe(Zero, pbt_growth_rate) /\ RLe(pbt_growth_rate, R(20, 100))
       ELSE RLe(R(10, 100), pbt_growth_rate) /\ RLe(pbt_growth_rate, R(25, 100))
    /\ RLe(Zero, common_redemption_rate) /\ RLe(common_redemption_rate, R(10, 100))
    /\ RLe(Zero, option_redemption_rate) /\ RLe(option_redemption_rate, R(10, 100))

InitUI == Init /\ SliderRange

SpecUI == InitUI /\ [][Next]_vars

\* ------------------------- inputs a caller of the function can pass
\* f restricted to the years of D
Restrict(f, D) == [y \in D |-> f[y]]

IncreasingSchedule == [y \in VestingYears |-> 5 + (y - 2025)]

\* schedules with years missing
PartialSchedules ==
    {Restrict(IncreasingSchedule, D) :
        D \in {{2025}, VestingYears \ {2025}, VestingYears \ {2026},
               VestingYears \ {LastYear}, {}}}

\* total common shares, purchase price, total grant shares, strike price:
\* positive, and one of them zero or negative
OpenHoldings ==
    {<<4, 2, 10, 6>>, <<0, 2, 10, 6>>, <<4, 0, 10, 6>>, <<4, 2, -1, 6>>, <<4, 2, 10, 0>>}

\* no redemption, half of the balance, and more than the whole balance
OpenRedemptionRates == {Zero, R(1, 2), R(3, 2)}

OpenScenarios ==
    {Scenario(g, crr, orr, h[1], h[2], h[3], h[4], vsi) :
        g \in GrowthRates, crr \in OpenRedemptionRates, orr \in OpenRedemptionRates,
        h \in OpenHoldings,
        vsi \in {IncreasingSchedule} \cup PartialSchedules}

\* the engines above and the calculate_results that validates its inputs
OpenVariants == Variants \cup {"validated"}

\* what st.error displayed
StError(message) == [kind |-> "st.error", key |-> 0, text |-> message]

\* validate_inputs: the message displayed, "" when the inputs are valid
validate_inputs(tcs, cpp, tgs, sp) ==
    IF tcs <= 0 \/ tgs <= 0 THEN "Total shares must be positive"
    ELSE IF ~IsPos(cpp) \/ ~IsPos(sp) THEN "Purchase and strike prices must be positive"
    ELSE ""

\* the empty dict {}
EmptyDict == << >>

\* if not validate_inputs(...): return {}
ValidateReject ==
    /\ pc = "idle"
    /\ variant = "validated"
    /\ validate_inputs(total_common_shares, common_purchase_price,
                       total_grant_shares, strike_price) # ""
    /\ error' = StError(validate_inputs(total_common_shares, common_purchase_price,
                                        total_grant_shares, strike_price))
    /\ results' = EmptyDict
    /\ pc' = "done"
    /\ UNCHANGED <<inputs, year, session>>

\* results = {year: {} for year in years}; return results
ValidatedReturn ==
    /\ pc = "idle"
    /\ variant = "validated"
    /\ validate_inputs(total_common_shares, common_purchase_price,
                       total_grant_shares, strike_price) = ""
    /\ results' = EmptyResults
    /\ pc' = "done"
    /\ UNCHANGED <<inputs, aux, year>>

InitOpen ==
    /\ variant \in OpenVariants
    /\ \E s \in OpenScenarios :
          /\ pbt_growth_rate = s.growth
          /\ common_redemption_rate = s.crr
          /\ option_redemption_rate = s.orr
          /\ total_common_shares = s.tcs
          /\ common_purchase_price = s.cpp
          /\ total_grant_shares = s.tgs
          /\ strike_price = s.sp
          /\ vested_shares_input = s.vsi
          /\ own = s
    /\ results = EmptyResults
    /\ year = FirstYear
    /\ pc = "idle"
    /\ error = NoError
    /\ previous = NoCall
    /\ attempt = "primary"
    /\ growth_chart_data = << >>
    /\ parked = NoInvocation

NextOpen ==
    \/ Next
    \/ OptionSetupKeyError
    \/ OptionStepKeyError
    \/ CalcValuesBeginKeyError
    \/ CalcValuesStepKeyError
    \/ ValidateReject
    \/ ValidatedReturn

SpecOpen == InitOpen /\ [][NextOpen]_vars

\* the call, once entered, runs on to its return or its exception
SpecOpenFair == SpecOpen /\ WF_vars(NextOpen)

\* the call raised
Raised == pc = "raised"

\* ------------------------------------------- the growth comparison chart
\* chart_years = list(range(2026, 2036))
chart_years == [i \in 1..(LastYear - 2025) |-> 2025 + i]

\* prices = [6.00]; prices.append(prices[-1] * (1 + growth_rate)): the
\* element of index k, the price of year 2024 + k
RECURSIVE prices(_, _)
prices(growth_rate, k) ==
    IF k = 0 THEN I(BasePrice)
    ELSE RMul(prices(growth_rate, k - 1), RAdd(One, growth_rate))

\* the price read at index idx + 1, one year early
calc_with_rate_OneYearEarly(growth_rate, s) ==
    [i \in DOMAIN chart_years |->
        LET price == prices(growth_rate, (i - 1) + 1)
            common_value == RMul(Max0(RSub(price, s.cpp)), I(s.tcs))
            option_value == RMul(Max0(RSub(price, s.sp)), I(s.tgs))
        IN  RMul(RAdd(common_value, option_value), R(1, 1000))]

\* calc_with_rate: the combined values of the chart years, in thousands;
\* idx = i - 1 is the index in chart_years
calc_with_rate(growth_rate, s) ==
    [i \in DOMAIN chart_years |->
        LET price == prices(growth_rate, (i - 1) + 2)
            common_value == RMul(Max0(RSub(price, s.cpp)), I(s.tcs))
            option_value == RMul(Max0(RSub(price, s.sp)), I(s.tgs))
        IN  RMul(RAdd(common_value, option_value), R(1, 1000))]

\* growth_rates = [0.10, 0.15, 0.20, 0.25]
growth_rates == {R(10, 100), R(15, 100), R(20, 100), R(25, 100)}

\* for rate in growth_rates: growth_chart_data[label] = calc_with_rate(rate)
GrowthChart ==
    /\ pc = "done"
    /\ variant = "complete_fixed"
    /\ growth_chart_data = << >>
    /\ growth_chart_data' = [rate \in growth_rates |-> calc_with_rate(rate, Given)]
    /\ UNCHANGED <<inputs, results, year, pc, error, previous, attempt,
                   parked, own>>

NextChart ==
    \/ Next
    \/ GrowthChart

SpecChart == Init /\ [][NextChart]_vars

\* ------------------------------------------- the caller's except clause
\* Growth rate and redemption rates of the fallback call: the globals rebound
\* to 0.20, 0.05, 0.05 in "fixed"; calculate_results(0.0, 0.0) in
\* "complete_fixed"; calculate_results() again, nothing changed, in
\* "updated_em"
FallbackRates(v, g, crr, orr) ==
    IF v = "fixed" THEN <<R(20, 100), R(5, 100), R(5, 100)>>
    ELSE IF v = "complete_fixed" THEN <<g, Zero, Zero>>
    ELSE <<g, crr, orr>>

\* except Exception as e: st.error(...); results = calculate_results(...)
Fallback ==
    /\ pc = "raised"
    /\ attempt = "primary"
    /\ variant \in {"fixed", "complete_fixed", "updated_em"}
    /\ LET rates == FallbackRates(variant, pbt_growth_rate, common_redemption_rate,
                                  option_redemption_rate)
       IN  /\ pbt_growth_rate' = rates[1]
           /\ common_redemption_rate' = rates[2]
           /\ option_redemption_rate' = rates[3]
    /\ attempt' = "fallback"
    /\ error' = NoError
    /\ results' = EmptyResults
    /\ year' = FirstYear
    /\ pc' = "idle"
    /\ UNCHANGED <<variant, total_common_shares, common_purchase_price,
                   total_grant_shares, strike_price, vested_shares_input, previous,
                   growth_chart_data, parked, own>>

NextCaller ==
    \/ NextOpen
    \/ Fallback

SpecCaller == InitOpen /\ [][NextCaller]_vars

\* ---------------------------------- the script, run again by the session
\* settings of the controls between which the user moves
SessionScenarios ==
    {Scenario(R(1, 5), crr, orr, 4, 2, tgs, 6, [y \in VestingYears |-> 8]) :
        crr \in {Zero, R(1, 10)}, orr \in {Zero, R(1, 10)}, tgs \in {10, 20}}

\* The arguments the call site passes: calculate_results() in "fixed" and
\* "updated_em", calculate_results(common_redemption_rate,
\* option_redemption_rate) in "complete_fixed", calculate_values(
\* redemption_percentage, pbt_growth_rate, vested_shares_input,
\* common_redemption_percentage, total_common_shares, common_purchase_price)
\* in "working_sheet"; every other input is read from the module's globals
ExplicitArgs ==
    IF variant = "complete_fixed"
    THEN <<common_redemption_rate, option_redemption_rate>>
    ELSE IF variant = "working_sheet"
    THEN <<option_redemption_rate, pbt_growth_rate, vested_shares_input,
           common_redemption_rate, total_common_shares, common_purchase_price>>
    ELSE << >>

InitSession ==
    /\ variant \in Variants
    /\ \E s \in SessionScenarios :
          /\ pbt_growth_rate = s.growth
          /\ common_redemption_rate = s.crr
          /\ option_redemption_rate = s.orr
          /\ total_common_shares = s.tcs
          /\ common_purchase_price = s.cpp
          /\ total_grant_shares = s.tgs
          /\ strike_price = s.sp
          /\ vested_shares_input = s.vsi
          /\ own = s
    /\ results = EmptyResults
    /\ year = FirstYear
    /\ pc = "idle"
    /\ error = NoError
    /\ previous = NoCall
    /\ attempt = "primary"
    /\ growth_chart_data = << >>
    /\ parked = NoInvocation

\* The script runs again: the controls are read into the globals and the
\* engine is called with the same call expression; the session keeps what
\* its first invocation was given and returned
Rerun ==
    /\ pc = "done"
    /\ \E s \in SessionScenarios :
          /\ pbt_growth_rate' = s.growth
          /\ common_redemption_rate' = s.crr
          /\ option_redemption_rate' = s.orr
          /\ total_common_shares' = s.tcs
          /\ common_purchase_price' = s.cpp
          /\ total_grant_shares' = s.tgs
          /\ strike_price' = s.sp
          /\ vested_shares_input' = s.vsi
    /\ previous' = IF previous = NoCall
                   THEN [args |-> ExplicitArgs, ledger |-> results]
                   ELSE previous
    /\ results' = EmptyResults
    /\ year' = FirstYear
    /\ pc' = "idle"
    /\ UNCHANGED <<variant, error, attempt, growth_chart_data, parked, own>>

NextSession ==
    \/ Next
    \/ Rerun

SpecSession == InitSession /\ [][NextSession]_vars

\* ------------------------------------------- two invocations, interleaved
\* The parameters of an invocation live in two places: the arguments of the
\* call expression are locals of the invocation's frame, every other input
\* is a module global that all invocations read.  The variables of the
\* model hold what the running invocation reads; `parked` keeps the locals
\* of the suspended one, `own` the parameter set an invocation was started
\* for.

\* common_redemption_rate and option_redemption_rate are parameters of the
\* function (locals of the frame) in "complete_fixed" and in calculate_values
HasRateParameters(v) == v \in {"complete_fixed", "working_sheet"}

\* the rates the suspended invocation reads once it runs again: its own
\* arguments where the rates are parameters, else the globals as they are
ResumedRates(v, frame, crr, orr) ==
    IF HasRateParameters(v) THEN frame ELSE <<crr, orr>>

\* the caller asks for a second ledger with other redemption rates while
\* the first invocation is in progress: calculate_results(rate, rate) where
\* the rates are parameters, common_redemption_rate = ...;
\* option_redemption_rate = ...; calculate_results() where they are globals
Invoke ==
    /\ parked = NoInvocation
    /\ pc \notin {"done", "raised"}
    /\ \E crr \in {Zero, R(1, 10)}, orr \in {Zero, R(1, 10)} :
          /\ <<crr, orr>> # <<common_redemption_rate, option_redemption_rate>>
          /\ common_redemption_rate' = crr
          /\ option_redemption_rate' = orr
          /\ own' = [Given EXCEPT !.crr = crr, !.orr = orr]
    /\ parked' = [results |-> results, year |-> year, pc |-> pc,
                  frame |-> <<common_redemption_rate, option_redemption_rate>>,
                  own |-> own]
    /\ results' = EmptyResults
    /\ year' = FirstYear
    /\ pc' = "idle"
    /\ UNCHANGED <<variant, pbt_growth_rate, total_common_shares,
                   common_purchase_price, total_grant_shares, strike_price,
                   vested_shares_input, error, previous, attempt,
                   growth_chart_data>>

\* the scheduler suspends the running invocation and resumes the other one
Switch ==
    /\ parked # NoInvocation
    /\ LET rates == ResumedRates(variant, parked.frame, common_redemption_rate,
                                 option_redemption_rate)
       IN  /\ common_redemption_rate' = rates[1]
           /\ option_redemption_rate' = rates[2]
    /\ results' = parked.results
    /\ year' = parked.year
    /\ pc' = parked.pc
    /\ own' = parked.own
    /\ parked' = [results |-> results, year |-> year, pc |-> pc,
                  frame |-> <<common_redemption_rate, option_redemption_rate>>,
                  own |-> own]
    /\ UNCHANGED <<variant, pbt_growth_rate, total_common_shares,
                   common_purchase_price, total_grant_shares, strike_price,
                   vested_shares_input, error, previous, attempt,
                   growth_chart_data>>

NextInterleaved ==
    \/ Next
    \/ Invoke
    \/ Switch

SpecInterleaved == InitSession /\ [][NextInterleaved]_vars

\* ------------------------------------------------------------ properties
ValuedYears == 2025..LastYear
LoopYears == 2026..LastYear

\* C1: for every year 2025..2035 the option grant's unsold value is
\* max(0, share price - strike price) * vested unsold shares, never a
\* multiple of the raw unsold shares (stated of the two calculate_results
\* variants, fixed-oaknorth-grants and oaknorth-grants-complete-fixed).
C1_UnsoldValueUsesVestedUnsold ==
    (Done /\ variant \in {"fixed", "complete_fixed"}) =>
        \A y \in ValuedYears :
            results[y]["Value of Unsold Shares"] =
                RMul(Max0(RSub(results[y]["Share Price"], strike_price)),
                     results[y]["Vested Unsold Shares"])

UnsoldAndRedeemedFields ==
    {"Unsold Common Shares", "Unsold Shares", "Vested Unsold Shares",
     "Common Shares Redeemed", "Cumulative Common Redeemed",
     "Redeemed Shares", "Cumulative Redeemed"}

\* C2: with positive totals and prices and a complete schedule, every unsold
\* and every redeemed quantity is >= 0 in every year 2024..2035 (stated of
\* calculate_results of fixed-oaknorth-grants).
C2_UnsoldAndRedeemedNonNegative ==
    (Done /\ variant = "fixed") =>
        \A y \in Years : \A f \in UnsoldAndRedeemedFields : ~IsNeg(results[y][f])

\* C3: common-share conservation: in every year 2025..2035 the unsold common
\* shares plus the cumulative common redeemed equal the total common shares.
C3_CommonConservation ==
    Done =>
        \A y \in ValuedYears :
            RAdd(results[y]["Unsold Common Shares"],
                 results[y]["Cumulative Common Redeemed"]) = I(total_common_shares)

\* a ledger in which common shares were redeemed
C3_Witness ==
    Done /\ \E y \in LoopYears : IsPos(results[y]["Cumulative Common Redeemed"])

\* C4: option-grant conservation: in every year 2025..2035 the unsold shares
\* plus the cumulative redeemed equal the total grant shares.
C4_GrantConservation ==
    Done =>
        \A y \in ValuedYears :
            RAdd(results[y]["Unsold Shares"],
                 results[y]["Cumulative Redeemed"]) = I(total_grant_shares)

\* a ledger in which grant shares were redeemed
C4_Witness ==
    Done /\ \E y \in LoopYears : IsPos(results[y]["Cumulative Redeemed"])

\* C5: in every year 2025..2035 the vested unsold shares are
\* max(0, vested shares - cumulative redeemed), hence never negative.
C5_VestedUnsoldClamped ==
    Done =>
        \A y \in ValuedYears :
            /\ results[y]["Vested Unsold Shares"] =
                   Max0(RSub(results[y]["Vested Shares"], results[y]["Cumulative Redeemed"]))
            /\ ~IsNeg(results[y]["Vested Unsold Shares"])

\* a ledger with a year whose cumulative redeemed exceeds its vested shares
C5_Witness ==
    Done /\ \E y \in LoopYears :
                IsNeg(RSub(results[y]["Vested Shares"], results[y]["Cumulative Redeemed"]))

\* C6: the 2024 share price is the constant 6.00, whatever the strike price,
\* and each later price is the previous one times (1 + growth rate).
C6_SharePriceSeries ==
    Done =>
        /\ results[2024]["Share Price"] = I(BasePrice)
        /\ \A y \in ValuedYears :
               results[y]["Share Price"] =
                   RMul(results[y - 1]["Share Price"], RAdd(One, pbt_growth_rate))

\* C7: 2025 is a no-redemption year for both instruments whatever the rates:
\* nothing redeemed, nothing cumulated, both unsold balances at their totals.
C7_NoRedemptionIn2025 ==
    Done =>
        /\ results[2025]["Common Shares Redeemed"] = Zero
        /\ results[2025]["Cumulative Common Redeemed"] = Zero
        /\ results[2025]["Redeemed Shares"] = Zero
        /\ results[2025]["Cumulative Redeemed"] = Zero
        /\ results[2025]["Unsold Common Shares"] = I(total_common_shares)
        /\ results[2025]["Unsold Shares"] = I(total_grant_shares)

\* a ledger computed with both redemption rates positive and shares vested in 2025
C7_Witness ==
    /\ Done
    /\ IsPos(common_redemption_rate)
    /\ IsPos(option_redemption_rate)
    /\ IsPos(results[2025]["Vested Shares"])

\* C8: with both redemption rates 0, every year has cumulative redeemed
\* quantities 0, per-year and cumulative redemption values 0, and each
\* instrument's total value equal to its unsold value.
C8_ZeroRates ==
    (Done /\ common_redemption_rate = Zero /\ option_redemption_rate = Zero) =>
        \A y \in Years :
            /\ results[y]["Cumulative Common Redeemed"] = Zero
            /\ results[y]["Cumulative Redeemed"] = Zero
            /\ results[y]["Common Redemption Value"] = Zero
            /\ results[y]["Cumulative Common Redemption Value"] = Zero
            /\ results[y]["Redemption Value"] = Zero
            /\ results[y]["Cumulative Redemption Value"] = Zero
            /\ results[y]["Total Common Share Value"] = results[y]["Value of Unsold Common Shares"]
            /\ results[y]["Total Grant Value"] = results[y]["Value of Unsold Shares"]

\* a zero-rate ledger whose vested grant shares are in the money
C8_Witness ==
    /\ Done
    /\ common_redemption_rate = Zero
    /\ option_redemption_rate = Zero
    /\ \E y \in LoopYears :
          /\ IsPos(results[y - 1]["Vested Unsold Shares"])
          /\ IsPos(results[y]["Value of Unsold Shares"])
          /\ IsPos(results[y]["Value of Unsold Common Shares"])

\* base price 6.00, growth 0.20, 30000 common shares bought at 2.00 with 5%
\* redemption, 100000 grant shares struck at 6.00 with 5% redemption, default vesting
ReferenceScenario ==
    /\ pbt_growth_rate = R(20, 100)
    /\ common_redemption_rate = R(5, 100)
    /\ option_redemption_rate = R(5, 100)
    /\ total_common_shares = 30000
    /\ common_purchase_price = I(2)
    /\ total_grant_shares = 100000
    /\ strike_price = I(6)
    /\ vested_shares_input = DefaultSchedule

\* C9: in the reference scenario the share price is 7.20 in 2025 and 8.64 in
\* 2026, and 2026 has 1500 common shares redeemed worth 9960.0 and 3000
\* grant shares redeemed worth 7920.0.
C9_ReferenceScenario ==
    (Done /\ ReferenceScenario) =>
        /\ results[2025]["Share Price"] = R(720, 100)
        /\ results[2026]["Share Price"] = R(864, 100)
        /\ results[2026]["Common Shares Redeemed"] = I(1500)
        /\ results[2026]["Common Redemption Value"] = I(9960)
        /\ results[2026]["Redeemed Shares"] = I(3000)
        /\ results[2026]["Redemption Value"] = I(7920)

\* the ledger of the reference scenario
C9_Witness == Done /\ ReferenceScenario /\ results[2026]["Vested Shares"] = I(70000)

\* the strike price exceeds the share price of every year
Underwater == \A y \in Years : IsNeg(RSub(results[y]["Share Price"], strike_price))

OptionValueFields ==
    {"Redemption Value", "Cumulative Redemption Value",
     "Value of Unsold Shares", "Total Grant Value"}

\* C10: when the strike price exceeds every year's share price, every value
\* field of the option grant is exactly 0 in every year.
C10_UnderwaterGrantIsWorthless ==
    (Done /\ Underwater) =>
        \A y \in Years : \A f \in OptionValueFields : results[y][f] = Zero

\* an underwater ledger with shares redeemed and shares still vested unsold
C10_Witness ==
    /\ Done
    /\ Underwater
    /\ \E y \in LoopYears :
          /\ IsPos(results[y]["Redeemed Shares"])
          /\ IsPos(results[y]["Vested Unsold Shares"])

\* C11: the returned ledger carries Combined Total Value = Total Common Share
\* Value + Total Grant Value for every year 2025..2035, 2025 included, and no
\* combined figure for 2024 (stated of the calculate_results variants
\* fixed-oaknorth-grants and oaknorth-grants-updated).
C11_CombinedTotalFrom2025 ==
    (Done /\ variant \in {"fixed", "updated_em"}) =>
        /\ \A y \in ValuedYears :
               results[y]["Combined Total Value"] =
                   RAdd(results[y]["Total Common Share Value"],
                        results[y]["Total Grant Value"])
        /\ results[2024]["Combined Total Value"] = Undef

\* the schedule lacks a year of 2025..2035
Incomplete == DOMAIN vested_shares_input # VestingYears

MissingYears == VestingYears \ DOMAIN vested_shares_input

\* a strict variant called with an incomplete schedule
StrictIncomplete ==
    variant \in {"complete_fixed", "working_sheet", "updated_em"} /\ Incomplete

\* no ledger is returned, an error names a missing year, nothing is defaulted
StrictOutcome ==
    StrictIncomplete =>
        /\ ~Done
        /\ Raised => (error.kind = "KeyError" /\ error.key \in MissingYears)
        /\ \A y \in MissingYears : results[y]["Vested Shares"] \in {Undef, Zero}

RECURSIVE NearestEarlier(_, _)
NearestEarlier(vsi, y) ==
    IF y < 2025 THEN 0
    ELSE IF y \in DOMAIN vsi THEN vsi[y]
    ELSE NearestEarlier(vsi, y - 1)

\* C13: in lenient mode the vested shares of a year absent from the schedule
\* are those of the nearest earlier year present, however far back, and 0
\* when there is none; the ledger is then completed.
C13_LenientNearestEarlier ==
    (Done /\ variant = "fixed") =>
        \A y \in VestingYears :
            results[y]["Vested Shares"] = I(NearestEarlier(vested_shares_input, y))

\* a total or a reference price is not positive
InvalidParameters ==
    \/ total_common_shares <= 0
    \/ total_grant_shares <= 0
    \/ ~IsPos(common_purchase_price)
    \/ ~IsPos(strike_price)

\* the names of the parameters that are not positive
FailedFields ==
    {f \in {"total_common_shares", "total_grant_shares",
            "common_purchase_price", "strike_price"} :
        \/ f = "total_common_shares" /\ total_common_shares <= 0
        \/ f = "total_grant_shares" /\ total_grant_shares <= 0
        \/ f = "common_purchase_price" /\ ~IsPos(common_purchase_price)
        \/ f = "strike_price" /\ ~IsPos(strike_price)}

\* C14: when a total or a reference price is <= 0 the call is rejected before
\* any year record is computed, the report names a field that failed, and
\* no ledger, empty or otherwise, is ever returned.
C14_InvalidParametersRejected ==
    InvalidParameters =>
        /\ ~Done
        /\ pc # "idle" =>
              /\ Raised
              /\ results = EmptyResults
              /\ error.text \in FailedFields

\* positive totals and prices and an entry for every year 2025..2035
ValidParameters == ~InvalidParameters /\ ~Incomplete

\* the returned ledger has a record for every year, with its share price
\* in the variants that compute
FullLedger ==
    /\ DOMAIN results = Years
    /\ variant \in Variants => \A y \in Years : results[y]["Share Price"] # Undef

\* C16: for any growth and redemption rates, negative and above 1 included,
\* with positive totals and prices and a complete schedule, the call never
\* ends in an error and eventually returns a ledger with a record for every
\* year.
C16_TerminatesWithFullLedger ==
    /\ [](ValidParameters => (~Raised /\ error = NoError /\ (Done => FullLedger)))
    /\ (ValidParameters ~> Done)

\* a call with a negative growth rate and a redemption rate above 1 returned
C16_Witness ==
    /\ Done
    /\ ValidParameters
    /\ variant = "fixed"
    /\ IsNeg(pbt_growth_rate)
    /\ RLe(One, option_redemption_rate) /\ option_redemption_rate # One

\* C15: every error occurs before the first year record is computed: when a
\* call has raised, no field of any year has been written.
C15_ErrorsBeforeAnyRecord ==
    Raised => results = EmptyResults

\* a redemption rate above 1, or a negative growth rate; no redemption rate
\* is negative
Degenerate ==
    /\ ~IsNeg(common_redemption_rate)
    /\ ~IsNeg(option_redemption_rate)
    /\ \/ IsNeg(pbt_growth_rate)
       \/ (RLe(One, common_redemption_rate) /\ common_redemption_rate # One)
       \/ (RLe(One, option_redemption_rate) /\ option_redemption_rate # One)

UnsoldBalances == {"Unsold Common Shares", "Unsold Shares", "Vested Unsold Shares"}

\* C17: with a redemption rate above 1 or a negative growth rate, the unsold
\* common shares, the unsold grant shares and the vested unsold shares may
\* reach zero but are never below zero in any year.
C17_DegenerateBalancesNonNegative ==
    (Done /\ Degenerate) =>
        \A y \in Years : \A f \in UnsoldBalances : ~IsNeg(results[y][f])

MonetaryFields ==
    {"Redemption Value", "Cumulative Redemption Value", "Value of Unsold Shares",
     "Total Grant Value", "Common Redemption Value",
     "Cumulative Common Redemption Value", "Value of Unsold Common Shares",
     "Total Common Share Value", "Combined Total Value"}

\* C18: with positive totals and prices and a complete schedule, every
\* monetary field of both instruments and the combined total is >= 0 in
\* every year, also when the share price is below the purchase or strike
\* price.
C18_MonetaryValuesNonNegative ==
    (Done /\ ValidParameters) =>
        \A y \in Years : \A f \in MonetaryFields : ~IsNeg(results[y][f])

\* C19: two invocations given identical arguments return identical ledgers,
\* whatever happened between them: the ledger is a function of the
\* arguments passed, not of the globals.
C19_SameArgumentsSameLedger ==
    (Done /\ previous # NoCall /\ previous.args = ExplicitArgs) =>
        results = previous.ledger

\* C20: no step of an invocation changes the vesting schedule or a scalar
\* parameter, so when the call has returned or failed every input has the
\* value it had before the call.
C20_InputsUnchanged ==
    [][inputs' = inputs]_vars

\* a lenient call on a schedule with years missing has returned
C20_Witness ==
    /\ Done
    /\ variant = "fixed"
    /\ MissingYears # {}
    /\ DOMAIN results = Years

\* the 2024 fields that are flows, cumulative amounts or values
SeedZeroFields ==
    (CommonFields \cup OptionFields) \ {"Unsold Common Shares", "Unsold Shares"}

\* C23: the 2024 record is a seed row: every redeemed, cumulative, value and
\* total field of both instruments and the vested shares are 0, the unsold
\* common shares are the total common shares and the unsold shares are the
\* total grant shares.
C23_SeedRow ==
    Done =>
        /\ \A f \in SeedZeroFields : results[2024][f] = Zero
        /\ results[2024]["Unsold Common Shares"] = I(total_common_shares)
        /\ results[2024]["Unsold Shares"] = I(total_grant_shares)

\* a ledger with redemptions in its last year, returned with its seed row
C23_Witness ==
    /\ Done
    /\ results[2024]["Unsold Shares"] = I(total_grant_shares)
    /\ IsPos(results[LastYear]["Redeemed Shares"])
    /\ IsPos(results[LastYear]["Common Shares Redeemed"])

\* C24: in every year 2026..2035 the redeemed shares are the previous
\* year's vested unsold shares times the option redemption rate, and the
\* cumulative redeemed is the previous cumulative plus the year's redeemed.
C24_RedemptionFlow ==
    Done =>
        \A y \in LoopYears :
            /\ results[y]["Redeemed Shares"] =
                   RMul(results[y - 1]["Vested Unsold Shares"], option_redemption_rate)
            /\ results[y]["Cumulative Redeemed"] =
                   RAdd(results[y - 1]["Cumulative Redeemed"], results[y]["Redeemed Shares"])

\* a year whose redemption differs from what the year's vested shares or
\* the previous year's raw unsold shares would give
C24_Witness ==
    /\ Done
    /\ IsPos(option_redemption_rate)
    /\ \E y \in LoopYears :
          /\ IsPos(results[y]["Redeemed Shares"])
          /\ results[y - 1]["Vested Unsold Shares"] # results[y]["Vested Shares"]
          /\ results[y - 1]["Vested Unsold Shares"] # results[y - 1]["Unsold Shares"]

\* the schedule is complete, non-negative and non-decreasing over 2025..2035
NonDecreasingSchedule ==
    /\ DOMAIN vested_shares_input = VestingYears
    /\ \A y \in VestingYears : vested_shares_input[y] >= 0
    /\ \A y \in LoopYears : vested_shares_input[y - 1] <= vested_shares_input[y]

\* 0 <= rate <= 1
UnitRate(rate) == RLe(Zero, rate) /\ RLe(rate, One)

\* C27: with 0 <= option redemption rate <= 1 and a non-negative,
\* non-decreasing schedule, the cumulative redeemed never exceeds the vested
\* shares, so the clamp is idle: vested unsold = vested - cumulative exactly.
C27_ClampIdle ==
    (Done /\ UnitRate(option_redemption_rate) /\ NonDecreasingSchedule) =>
        \A y \in Years :
            /\ RLe(results[y]["Cumulative Redeemed"], results[y]["Vested Shares"])
            /\ results[y]["Vested Unsold Shares"] =
                   RSub(results[y]["Vested Shares"], results[y]["Cumulative Redeemed"])

\* a growing schedule redeemed at a positive rate
C27_Witness ==
    /\ Done
    /\ UnitRate(option_redemption_rate)
    /\ NonDecreasingSchedule
    /\ vested_shares_input[2025] < vested_shares_input[LastYear]
    /\ IsPos(results[LastYear]["Cumulative Redeemed"])

\* C28: in every year 2026..2035, for any common redemption rate, the unsold
\* common shares are the previous year's times (1 - rate); hence for a rate
\* in [0, 1] the balance never rises and stays within [0, total].
C28_GeometricDecay ==
    Done =>
        /\ \A y \in LoopYears :
              results[y]["Unsold Common Shares"] =
                  RMul(results[y - 1]["Unsold Common Shares"],
                       RSub(One, common_redemption_rate))
        /\ UnitRate(common_redemption_rate) =>
              \A y \in LoopYears :
                  /\ RLe(results[y]["Unsold Common Shares"],
                         results[y - 1]["Unsold Common Shares"])
                  /\ RLe(Zero, results[y]["Unsold Common Shares"])
                  /\ RLe(results[y]["Unsold Common Shares"], I(total_common_shares))

\* a balance that decayed twice at a rate strictly between 0 and 1
C28_Witness ==
    /\ Done
    /\ IsPos(common_redemption_rate)
    /\ common_redemption_rate # One
    /\ UnitRate(common_redemption_rate)
    /\ IsPos(results[2027]["Unsold Common Shares"])
    /\ results[2027]["Unsold Common Shares"] # results[2026]["Unsold Common Shares"]

\* C29: with growth rate >= 0 and common redemption rate in [0, 1], the total
\* common share value never falls from one year to the next over 2026..2035:
\* it is the previous cumulative redemption value plus the year's intrinsic
\* value of the shares unsold at the end of the previous year.
C29_CommonTotalNeverFalls ==
    (Done /\ ~IsNeg(pbt_growth_rate) /\ UnitRate(common_redemption_rate)) =>
        \A y \in LoopYears :
            /\ RLe(results[y - 1]["Total Common Share Value"],
                   results[y]["Total Common Share Value"])
            /\ results[y]["Total Common Share Value"] =
                   RAdd(results[y - 1]["Cumulative Common Redemption Value"],
                        RMul(IntrinsicValue(results[y]["Share Price"], common_purchase_price),
                             results[y - 1]["Unsold Common Shares"]))

\* shares redeemed in the money while the total still rose
C29_Witness ==
    /\ Done
    /\ IsPos(pbt_growth_rate)
    /\ UnitRate(common_redemption_rate)
    /\ IsPos(results[2026]["Common Redemption Value"])
    /\ results[2026]["Total Common Share Value"] # results[2027]["Total Common Share Value"]

\* schedules to compare a given custom schedule with: the custom schedules,
\* and the given one with the entry of one year raised by one (none for the
\* default schedule, whose amounts leave no room in 32-bit numerators)
OtherSchedules ==
    IF vested_shares_input \in CustomSchedules
    THEN CustomSchedules \cup
         {[vested_shares_input EXCEPT ![k] = @ + 1] : k \in DOMAIN vested_shares_input}
    ELSE {}

\* two year records agree in every field
SameRecord(a, b) == \A f \in Columns : a[f] = b[f]

OtherRates ==
    IF Given \in DefaultScenarios THEN {Zero, R(1, 20)} ELSE RedemptionRates

\* C30: for a growth rate >= 0 and common redemption rates
\* 0 <= r1 <= r2 <= 1, all else equal, the total common share value under
\* r1 is >= the one under r2 in every year 2025..2035, and equal in 2025
\* and 2026.
C30_HigherRateNeverRaisesTotal ==
    (Done /\ ~IsNeg(pbt_growth_rate) /\ UnitRate(common_redemption_rate)) =>
        \A r2 \in OtherRates :
            (RLe(common_redemption_rate, r2) /\ UnitRate(r2)) =>
                LET ledger == Engine(variant, [Given EXCEPT !.crr = r2])
                IN  /\ \A y \in ValuedYears :
                          RLe(ledger[y]["Total Common Share Value"],
                              results[y]["Total Common Share Value"])
                    /\ \A y \in {2025, 2026} :
                          ledger[y]["Total Common Share Value"] =
                              results[y]["Total Common Share Value"]

\* a higher rate that lowers the 2027 total
C30_Witness ==
    /\ Done
    /\ IsPos(pbt_growth_rate)
    /\ UnitRate(common_redemption_rate)
    /\ \E r2 \in OtherRates :
          /\ RLe(common_redemption_rate, r2)
          /\ UnitRate(r2)
          /\ Engine(variant, [Given EXCEPT !.crr = r2])[2027]["Total Common Share Value"]
                 # results[2027]["Total Common Share Value"]

\* C25: in every caller, the fallback calculation that follows a primary
\* call that raised runs with both redemption rates 0, and returns the
\* ledger of that zero-rate run, which is the one displayed.
C25_FallbackRunsZeroRates ==
    attempt = "fallback" =>
        /\ common_redemption_rate = Zero
        /\ option_redemption_rate = Zero
        /\ ~Raised
        /\ Done => results = Engine(variant, [Given EXCEPT !.crr = Zero, !.orr = Zero])

\* C26: calc_with_rate(g) is, for each chart year 2026..2035 in order, the
\* Combined Total Value of that year divided by 1000 of calculate_results
\* of the same file run with growth rate g and both redemption rates 0.
C26_ChartMatchesZeroRateEngine ==
    growth_chart_data # << >> =>
        \A rate \in DOMAIN growth_chart_data :
            LET ledger == Engine(variant, [Given EXCEPT !.growth = rate,
                                                       !.crr = Zero, !.orr = Zero])
            IN  \A i \in DOMAIN chart_years :
                    growth_chart_data[rate][i] =
                        RMul(ledger[chart_years[i]]["Combined Total Value"], R(1, 1000))

\* a chart drawn for a grant in the money, beside a ledger computed with
\* redemptions
C26_Witness ==
    /\ growth_chart_data # << >>
    /\ IsPos(common_redemption_rate)
    /\ IsPos(option_redemption_rate)
    /\ \A rate \in growth_rates : IsPos(growth_chart_data[rate][1])
    /\ IsPos(results[2026]["Value of Unsold Shares"])

\* C21: when invocations with different parameter sets are interleaved at
\* any step granularity, each returns exactly the ledger it would return
\* when run alone: no invocation reads or writes state that another
\* invocation writes.
C21_InterleavedRunsIndependent ==
    (Done /\ parked # NoInvocation) =>
        LET alone == Engine(variant, own)
        IN  \A y \in Years : SameRecord(results[y], alone[y])

====
